---- MODULE Spec2Model ----
(***************************************************************************)
(* MacSystemManager (src/system/macos.rs): the window queries, the        *)
(* secure-input resolver and the application-name extraction, over the    *)
(* native bridge of crate::bridge::macos.                                  *)
(*                                                                         *)
(* Bytes are numbers 0..255 and text is a sequence of Unicode code points *)
(* (ASCII text is the sequence of its byte values: "/" is 47, "." is 46). *)
(* An Option is a sequence of length at most one: None is <<>>, Some(v)  *)
(* is <<v>>.                                                               *)
(***************************************************************************)
EXTENDS Integers, Sequences, FiniteSets, TLC

VARIABLES
    activeApp,     \* what get_active_app_identifier answers: [status, written]
    activeBundle,  \* what get_active_app_bundle answers: [status, written]
    secureInput,   \* what get_secure_input_process answers: [status, slot]
    procPath,      \* what get_path_from_pid answers: [status, written]
    path,          \* the argument handed to get_app_name_from_path by its tests
    last           \* the latest call of the module: [op, ret, calls, pidArg]

vars == <<activeApp, activeBundle, secureInput, procPath, path, last>>

None == <<>>
Some(v) == <<v>>

(***************************************************************************)
(* Bounds of the model.                                                    *)
(***************************************************************************)
\* directory segments of a path handed to get_app_name_from_path
MaxSegs == 3
\* directory segments of a path written by get_path_from_pid
MaxPathSegs == 1
\* characters of the body of an identifier / bundle text written by the bridge
MaxText == 2

(***************************************************************************)
(* The native buffer and its decoding.                                     *)
(***************************************************************************)
\* `let mut buffer: [c_char; N] = [0; N]` after the bridge wrote `written`
\* at its start (the bridge is handed the capacity and stays within it).
Buffer(cap, written) ==
    [i \in 1..cap |-> IF i <= Len(written) THEN written[i] ELSE 0]

\* CStr::from_ptr: the bytes before the first NUL.
RECURSIVE StrLen(_, _)
StrLen(buffer, i) ==
    IF buffer[i] = 0 THEN i - 1 ELSE StrLen(buffer, i + 1)

CStrFromPtr(buffer) ==
    LET n == StrLen(buffer, 1) IN [k \in 1..n |-> buffer[k]]

\* a UTF-8 continuation byte 10xxxxxx
IsCont(b) == b >= 128 /\ b <= 191

\* CStr::to_str (std::str::from_utf8): the code points of a well-formed
\* UTF-8 byte string, None on a malformed one.
RECURSIVE FromUtf8(_, _, _)
FromUtf8(b, i, acc) ==
    IF i > Len(b) THEN Some(acc)
    ELSE LET c == b[i] IN
        IF c < 128 THEN FromUtf8(b, i + 1, Append(acc, c))
        ELSE IF c >= 194 /\ c <= 223 THEN
            IF i + 1 <= Len(b) /\ IsCont(b[i + 1])
            THEN FromUtf8(b, i + 2, Append(acc, (c - 192) * 64 + (b[i + 1] - 128)))
            ELSE None
        ELSE IF c >= 224 /\ c <= 239 THEN
            IF /\ i + 2 <= Len(b)
               /\ b[i + 1] >= (IF c = 224 THEN 160 ELSE 128)
               /\ b[i + 1] <= (IF c = 237 THEN 159 ELSE 191)
               /\ IsCont(b[i + 2])
            THEN FromUtf8(b, i + 3, Append(acc,
                    (c - 224) * 4096 + (b[i + 1] - 128) * 64 + (b[i + 2] - 128)))
            ELSE None
        ELSE IF c >= 240 /\ c <= 244 THEN
            IF /\ i + 3 <= Len(b)
               /\ b[i + 1] >= (IF c = 240 THEN 144 ELSE 128)
               /\ b[i + 1] <= (IF c = 244 THEN 143 ELSE 191)
               /\ IsCont(b[i + 2])
               /\ IsCont(b[i + 3])
            THEN FromUtf8(b, i + 4, Append(acc,
                    (c - 240) * 262144 + (b[i + 1] - 128) * 4096
                    + (b[i + 2] - 128) * 64 + (b[i + 3] - 128)))
            ELSE None
        ELSE None

to_str(bytes) == FromUtf8(bytes, 1, <<>>)

\* char::is_whitespace: the Unicode White_Space code points.
IsWhitespace(c) ==
    \/ c \in 9..13
    \/ c \in {32, 133, 160, 5760, 8232, 8233, 8239, 8287, 12288}
    \/ c \in 8192..8202

\* str::trim: drop the leading and the trailing whitespace.
RECURSIVE TrimStart(_)
TrimStart(s) ==
    IF s # <<>> /\ IsWhitespace(Head(s)) THEN TrimStart(Tail(s)) ELSE s

RECURSIVE TrimEnd(_)
TrimEnd(s) ==
    IF s # <<>> /\ IsWhitespace(s[Len(s)])
    THEN TrimEnd(SubSeq(s, 1, Len(s) - 1))
    ELSE s

trim(s) == TrimEnd(TrimStart(s))

(***************************************************************************)
(* APP_REGEX = "/([^/]+).(app|bundle)/" and Regex::captures: the leftmost  *)
(* match, [^/]+ greedy, `.` any character but a line feed.                 *)
(***************************************************************************)
\* the words of the alternation (app|bundle), in its order
AppWords == << <<97, 112, 112>>, <<98, 117, 110, 100, 108, 101>> >>

\* the literal w stands in s at position i
LiteralAt(s, i, w) ==
    /\ i + Len(w) - 1 <= Len(s)
    /\ \A k \in 1..Len(w) : s[i + k - 1] = w[k]

\* `.(app|bundle)/` matches in s right after position j
SuffixAt(s, j) ==
    /\ j + 1 <= Len(s)
    /\ s[j + 1] # 10
    /\ \E n \in 1..Len(AppWords) :
          LiteralAt(s, j + 2, AppWords[n] \o <<47>>)

\* the end of the longest run of characters other than "/" from position i
RECURSIVE RunEnd(_, _)
RunEnd(s, i) ==
    IF i <= Len(s) /\ s[i] # 47 THEN RunEnd(s, i + 1) ELSE i - 1

\* the greedy [^/]+ from position i gives back characters down from j until
\* the rest of the pattern matches; 0 when it never does
RECURSIVE Backtrack(_, _, _)
Backtrack(s, i, j) ==
    IF j < i THEN 0
    ELSE IF SuffixAt(s, j) THEN j
    ELSE Backtrack(s, i, j - 1)

\* the match attempt that starts at position i: the end of group 1, or 0
MatchAt(s, i) ==
    IF s[i] = 47 THEN Backtrack(s, i + 1, RunEnd(s, i + 1)) ELSE 0

\* Regex::captures: group 1 of the leftmost match, None without a match
RECURSIVE Captures(_, _)
Captures(s, i) ==
    IF i > Len(s) THEN None
    ELSE LET j == MatchAt(s, i) IN
        IF j > 0 THEN Some(SubSeq(s, i + 1, j)) ELSE Captures(s, i + 1)

get_app_name_from_path(p) ==
    LET caps == Captures(p, 1) IN
    IF caps # None THEN Some(caps[1]) ELSE None

(***************************************************************************)
(* The queries.  Each takes the bridge b = [app, bundle, sip, pth] (the    *)
(* answers the four native calls give at the time of the query) and gives  *)
(* [ret, calls, pidArg]: the value returned, the native calls issued in    *)
(* order, and the pid handed to get_path_from_pid (None when not called).  *)
(***************************************************************************)
\* a slip of line 39: `res >= 0`
Mutant_get_current_window_class(b) ==
    LET buffer == Buffer(250, b.app.written)
        res == b.app.status
        string == to_str(CStrFromPtr(buffer))
    IN [ret |-> IF res >= 0 /\ string # None THEN Some(string[1]) ELSE None,
        calls |-> <<"get_active_app_identifier">>,
        pidArg |-> None]

get_current_window_class(b) ==
    LET buffer == Buffer(250, b.app.written)
        res == b.app.status
        string == to_str(CStrFromPtr(buffer))
    IN [ret |-> IF res > 0 /\ string # None THEN Some(string[1]) ELSE None,
        calls |-> <<"get_active_app_identifier">>,
        pidArg |-> None]

get_current_window_executable(b) ==
    LET buffer == Buffer(250, b.bundle.written)
        res == b.bundle.status
        string == to_str(CStrFromPtr(buffer))
    IN [ret |-> IF res > 0 /\ string # None THEN Some(string[1]) ELSE None,
        calls |-> <<"get_active_app_bundle">>,
        pidArg |-> None]

\* a slip of line 31: the title taken from the executable query
Mutant_get_current_window_title(b) == get_current_window_executable(b)

get_current_window_title(b) == get_current_window_class(b)

\* a slip of lines 83-87: the slot decides, not the status
Mutant_get_secure_input_pid(b) ==
    LET pid == IF b.sip.slot # None THEN b.sip.slot[1] ELSE -1
    IN [ret |-> IF pid # -1 THEN Some(pid) ELSE None,
        calls |-> <<"get_secure_input_process">>,
        pidArg |-> None]

\* `let mut pid: i64 = -1` and what the bridge leaves in it
get_secure_input_pid(b) ==
    LET pid == IF b.sip.slot # None THEN b.sip.slot[1] ELSE -1
        res == b.sip.status
    IN [ret |-> IF res > 0 THEN Some(pid) ELSE None,
        calls |-> <<"get_secure_input_process">>,
        pidArg |-> None]

\* a slip of lines 110-114: the fallback name left out
Mutant_Holder(process) ==
    LET name == get_app_name_from_path(process)
        app_name == IF name # None THEN name[1] ELSE <<>>
    IN <<app_name, process>>

\* lines 109-116: the display name and the pair returned
Holder(process) ==
    LET name == get_app_name_from_path(process)
        app_name == IF name # None THEN name[1] ELSE process
    IN <<app_name, process>>

\* a slip of line 107: `!path.is_empty()`, the text not trimmed for the test
Mutant_get_secure_input_application_untrimmed(b) ==
    LET pid == get_secure_input_pid(b) IN
    IF pid.ret # None THEN
        LET buffer == Buffer(4096, b.pth.written)
            res == b.pth.status
            string == to_str(CStrFromPtr(buffer))
        IN [ret |-> IF res > 0 /\ string # None /\ string[1] # <<>>
                    THEN Some(Holder(trim(string[1])))
                    ELSE None,
            calls |-> pid.calls \o <<"get_path_from_pid">>,
            pidArg |-> Some(pid.ret[1])]
    ELSE [ret |-> None, calls |-> pid.calls, pidArg |-> None]

\* a slip of line 97: the path asked for whether or not a pid came back
Mutant_get_secure_input_application_eager(b) ==
    LET pid == get_secure_input_pid(b)
        p == IF pid.ret # None THEN pid.ret[1] ELSE -1
        buffer == Buffer(4096, b.pth.written)
        res == b.pth.status
        string == to_str(CStrFromPtr(buffer))
    IN [ret |-> IF pid.ret # None /\ res > 0 /\ string # None
                   /\ trim(string[1]) # <<>>
                THEN Some(Holder(trim(string[1])))
                ELSE None,
        calls |-> pid.calls \o <<"get_path_from_pid">>,
        pidArg |-> Some(p)]

get_secure_input_application(b) ==
    LET pid == get_secure_input_pid(b) IN
    IF pid.ret # None THEN
        LET buffer == Buffer(4096, b.pth.written)
            res == b.pth.status
            string == to_str(CStrFromPtr(buffer))
        IN [ret |-> IF res > 0 /\ string # None /\ trim(string[1]) # <<>>
                    THEN Some(Holder(trim(string[1])))
                    ELSE None,
            calls |-> pid.calls \o <<"get_path_from_pid">>,
            pidArg |-> Some(pid.ret[1])]
    ELSE [ret |-> None, calls |-> pid.calls, pidArg |-> None]

(***************************************************************************)
(* The inputs: what the bridge may answer, and the paths of the tests.     *)
(***************************************************************************)
\* a status is positive on success, zero or negative on failure
Statuses == {-1, 0, 1}

\* names and suffixes of directory segments: "", "x", "xy" and
\* "", ".app", ".bundle", "app"
SegNames == {<<>>, <<120>>, <<120, 121>>}
SegSuffixes ==
    {<<>>, <<46, 97, 112, 112>>, <<46, 98, 117, 110, 100, 108, 101>>, <<97, 112, 112>>}
Segments == {n \o x : n \in SegNames, x \in SegSuffixes}

\* the paths of exactly k segments, each behind a "/"
RECURSIVE PathsOf(_)
PathsOf(k) ==
    IF k = 0 THEN {<<>>}
    ELSE {p \o <<47>> \o g : p \in PathsOf(k - 1), g \in Segments}

\* the paths of at most n segments, with and without a closing "/"
PathTexts(n) ==
    {p \o e : p \in UNION {PathsOf(k) : k \in 0..n}, e \in {<<>>, <<47>>}}

\* texts of at most n characters over "x" and " "
RECURSIVE Bodies(_)
Bodies(n) ==
    IF n = 0 THEN {<<>>}
    ELSE Bodies(n - 1) \cup {t \o <<c>> : t \in Bodies(n - 1), c \in {32, 120}}

\* what follows the text in the buffer: nothing, a NUL and a stale byte, an
\* ill-formed byte, the two bytes of U+00E9
WindowTails == {<<>>, <<0, 120>>, <<255>>, <<195, 169>>}
WindowResponses ==
    [status : Statuses,
     written : {t \o e : t \in Bodies(MaxText), e \in WindowTails}]

\* around a path: a leading space; nothing, U+00A0 and a line feed, a NUL and
\* a stale byte, an ill-formed byte behind it
PathLeads == {<<>>, <<32>>}
PathTails == {<<>>, <<194, 160, 10>>, <<0, 120>>, <<255>>}
PathResponses ==
    [status : Statuses,
     written : {l \o p \o e : l \in PathLeads, p \in PathTexts(MaxPathSegs),
                              e \in PathTails}]

\* the pid slot is left alone or written
SecureInputResponses == [status : Statuses, slot : {None, Some(7)}]

\* the answers of a bridge with nothing in the foreground and no holder
Quiet == [status |-> 0, written |-> <<>>]
NoHolder == [status |-> 0, slot |-> None]

NoCall == [op |-> "none", ret |-> None, calls |-> <<>>, pidArg |-> None]

Bridge ==
    [app |-> activeApp, bundle |-> activeBundle, sip |-> secureInput, pth |-> procPath]

Returned(op, r) ==
    [op |-> op, ret |-> r.ret, calls |-> r.calls, pidArg |-> r.pidArg]

(***************************************************************************)
(* Initial states: the module keeps no state of its own                    *)
(* (MacSystemManager {}), so a state is a state of the bridge.  The window *)
(* calls and the secure-input calls read disjoint parts of it, and the     *)
(* tests call get_app_name_from_path on its own: each part ranges over its *)
(* answers with the others quiet.                                          *)
(***************************************************************************)
InitWindow ==
    /\ activeApp \in WindowResponses
    /\ activeBundle \in WindowResponses
    /\ secureInput = NoHolder
    /\ procPath = Quiet
    /\ path = <<>>
    /\ last = NoCall

InitSecureInput ==
    /\ activeApp = Quiet
    /\ activeBundle = Quiet
    /\ secureInput \in SecureInputResponses
    /\ procPath \in PathResponses
    /\ path = <<>>
    /\ last = NoCall

InitPath ==
    /\ activeApp = Quiet
    /\ activeBundle = Quiet
    /\ secureInput = NoHolder
    /\ procPath = Quiet
    /\ path \in PathTexts(MaxSegs)
    /\ last = NoCall

Init == InitWindow \/ InitSecureInput \/ InitPath

(***************************************************************************)
(* One action per entry point.                                             *)
(***************************************************************************)
CallGetCurrentWindowTitle ==
    /\ last' = Returned("get_current_window_title", get_current_window_title(Bridge))
    /\ UNCHANGED <<activeApp, activeBundle, secureInput, procPath, path>>

CallGetCurrentWindowClass ==
    /\ last' = Returned("get_current_window_class", get_current_window_class(Bridge))
    /\ UNCHANGED <<activeApp, activeBundle, secureInput, procPath, path>>

CallGetCurrentWindowExecutable ==
    /\ last' = Returned("get_current_window_executable",
                        get_current_window_executable(Bridge))
    /\ UNCHANGED <<activeApp, activeBundle, secureInput, procPath, path>>

CallGetSecureInputPid ==
    /\ last' = Returned("get_secure_input_pid", get_secure_input_pid(Bridge))
    /\ UNCHANGED <<activeApp, activeBundle, secureInput, procPath, path>>

CallGetSecureInputApplication ==
    /\ last' = Returned("get_secure_input_application",
                        get_secure_input_application(Bridge))
    /\ UNCHANGED <<activeApp, activeBundle, secureInput, procPath, path>>

CallGetAppNameFromPath ==
    /\ last' = [op |-> "get_app_name_from_path",
                ret |-> get_app_name_from_path(path),
                calls |-> <<>>, pidArg |-> None]
    /\ UNCHANGED <<activeApp, activeBundle, secureInput, procPath, path>>

Next ==
    \/ CallGetCurrentWindowTitle
    \/ CallGetCurrentWindowClass
    \/ CallGetCurrentWindowExecutable
    \/ CallGetSecureInputPid
    \/ CallGetSecureInputApplication
    \/ CallGetAppNameFromPath

Spec == Init /\ [][Next]_vars

(***************************************************************************)
(* Vocabulary of the properties.                                           *)
(***************************************************************************)
\* ".app/" and ".bundle/", the suffixes that mark a bundle directory
BundleMarks ==
    {<<46, 97, 112, 112, 47>>, <<46, 98, 117, 110, 100, 108, 101, 47>>}

\* s[i] is a "/" and s[i+1..j] is a bundle segment name: not empty, free of
\* "/", and immediately followed by ".app/" or ".bundle/"
BundleAt(s, i, j) ==
    /\ s[i] = 47
    /\ j > i
    /\ \A k \in (i + 1)..j : s[k] # 47
    /\ \E m \in BundleMarks : LiteralAt(s, j + 1, m)

\* the positions of the "/" that open a bundle segment of s
BundleStarts(s) == {i \in 1..Len(s) : \E j \in i..Len(s) : BundleAt(s, i, j)}

\* the name of the leftmost bundle segment of s
FirstBundleName(s) ==
    LET i == CHOOSE a \in BundleStarts(s) : \A c \in BundleStarts(s) : a <= c
        j == CHOOSE e \in i..Len(s) : BundleAt(s, i, e)
    IN SubSeq(s, i + 1, j)

\* the text a bridge answer leaves in the buffer: the bytes written, up to
\* the first NUL among them
TextWritten(w) ==
    LET z == {i \in 1..Len(w) : w[i] = 0} IN
    IF z = {} THEN w
    ELSE SubSeq(w, 1, (CHOOSE a \in z : \A c \in z : a <= c) - 1)

WindowQueries ==
    {"get_current_window_title", "get_current_window_class",
     "get_current_window_executable"}

\* the answer of the bridge call a window query wraps
AnswerFor(op) ==
    IF op = "get_current_window_executable" THEN activeBundle ELSE activeApp

(***************************************************************************)
(* C1.  A path with a bundle segment X (a non-empty name free of "/",      *)
(* behind a "/" and followed by ".app/" or ".bundle/") gives Some(X); X is *)
(* read as the leftmost such segment, the one C9 names when there are      *)
(* several.  The code does not satisfy this.                               *)
(***************************************************************************)
C1_BundleNameExtracted ==
    (last.op = "get_app_name_from_path" /\ BundleStarts(path) # {})
        => last.ret = Some(FirstBundleName(path))

(***************************************************************************)
(* C2.  A path without any bundle segment gives None, and the resolver     *)
(* then names the holder by its full trimmed path.  The code does not      *)
(* satisfy this.                                                           *)
(***************************************************************************)
C2_NoBundleNoName ==
    /\ (last.op = "get_app_name_from_path" /\ BundleStarts(path) = {})
          => last.ret = None
    /\ (/\ last.op = "get_secure_input_application"
        /\ last.ret # None
        /\ BundleStarts(last.ret[1][2]) = {})
          => last.ret[1][1] = last.ret[1][2]

(***************************************************************************)
(* C9.  Of several bundle segments on a path, the leftmost one gives the   *)
(* name.  The code does not satisfy this.                                  *)
(***************************************************************************)
C9_FirstBundleWins ==
    (last.op = "get_app_name_from_path" /\ Cardinality(BundleStarts(path)) >= 2)
        => last.ret = Some(FirstBundleName(path))

(***************************************************************************)
(* C3.  When the secure-input call answers a status <= 0,                  *)
(* get_secure_input_pid and get_secure_input_application return None       *)
(* whatever the pid slot holds, and get_path_from_pid is not called.       *)
(***************************************************************************)
C3_NoHolderOnFailedPidQuery ==
    secureInput.status <= 0 =>
        /\ last.op = "get_secure_input_pid" => last.ret = None
        /\ last.op = "get_secure_input_application" =>
              /\ last.ret = None
              /\ last.calls = <<"get_secure_input_process">>
              /\ last.pidArg = None

C3_Witness ==
    /\ last.op = "get_secure_input_application"
    /\ secureInput.status <= 0
    /\ secureInput.slot = Some(7)
    /\ procPath.status > 0
    /\ trim(TextWritten(procPath.written)) # <<>>
    /\ last.ret = None

(***************************************************************************)
(* C4.  When get_path_from_pid answers a positive status and the decoded   *)
(* text is empty once trimmed, get_secure_input_application returns None;  *)
(* a holder never has an empty name or an empty path.                      *)
(***************************************************************************)
C4_NoHolderOnBlankPath ==
    last.op = "get_secure_input_application" =>
        /\ (/\ procPath.status > 0
            /\ to_str(TextWritten(procPath.written)) # None
            /\ trim(to_str(TextWritten(procPath.written))[1]) = <<>>)
              => last.ret = None
        /\ last.ret # None => (last.ret[1][1] # <<>> /\ last.ret[1][2] # <<>>)

C4_Witness ==
    /\ last.op = "get_secure_input_application"
    /\ secureInput.status > 0
    /\ procPath.status > 0
    /\ TextWritten(procPath.written) # <<>>
    /\ to_str(TextWritten(procPath.written)) # None
    /\ trim(to_str(TextWritten(procPath.written))[1]) = <<>>
    /\ last.ret = None

(***************************************************************************)
(* C5.  get_current_window_class and get_current_window_executable return *)
(* None when the status is <= 0 or the bytes do not decode, and otherwise  *)
(* Some of the null-terminated text of the buffer, not trimmed.            *)
(***************************************************************************)
C5_WindowQueryDegradesToNone ==
    last.op \in {"get_current_window_class", "get_current_window_executable"} =>
        LET answer == AnswerFor(last.op)
            text == to_str(TextWritten(answer.written))
        IN IF answer.status <= 0 \/ text = None
           THEN last.ret = None
           ELSE last.ret = Some(text[1])

C5_Witness ==
    /\ last.op = "get_current_window_class"
    /\ activeApp.status = 0
    /\ TextWritten(activeApp.written) # <<>>
    /\ to_str(TextWritten(activeApp.written)) # None
    /\ last.ret = None

(***************************************************************************)
(* C6.  On one state of the bridge get_current_window_title returns what   *)
(* get_current_window_class returns, and it issues the active-app          *)
(* identifier call alone.                                                  *)
(***************************************************************************)
C6_TitleIsClass ==
    [][/\ (\/ (last.op = "get_current_window_class"
                 /\ last'.op = "get_current_window_title")
           \/ (last.op = "get_current_window_title"
                 /\ last'.op = "get_current_window_class"))
          => last'.ret = last.ret
       /\ last'.op = "get_current_window_title"
          => last'.calls = <<"get_active_app_identifier">>]_vars

C6_Witness ==
    /\ last.op = "get_current_window_title"
    /\ last.ret # None
    /\ activeBundle.status <= 0
    /\ last.ret[1] # TextWritten(activeBundle.written)

(***************************************************************************)
(* C7.  A holder Some((name, path)) is returned only when both calls       *)
(* answered a positive status; path is the decoded text, trimmed and not   *)
(* empty; name is what get_app_name_from_path extracts from path, or path  *)
(* itself when it extracts nothing.                                        *)
(***************************************************************************)
C7_HolderShape ==
    (last.op = "get_secure_input_application" /\ last.ret # None) =>
        LET text == to_str(TextWritten(procPath.written))
            name == last.ret[1][1]
            process == last.ret[1][2]
        IN /\ secureInput.status > 0
           /\ procPath.status > 0
           /\ text # None
           /\ process = trim(text[1])
           /\ process # <<>>
           /\ name = IF get_app_name_from_path(process) # None
                     THEN get_app_name_from_path(process)[1]
                     ELSE process

C7_Witness ==
    /\ last.op = "get_secure_input_application"
    /\ last.ret # None
    /\ last.ret[1][1] # last.ret[1][2]
    /\ last.ret[1][2] # TextWritten(procPath.written)

(***************************************************************************)
(* C8.  -1 is never taken for a pid: get_secure_input_pid never returns    *)
(* Some(-1) and get_path_from_pid is never called with -1, also when the   *)
(* bridge answers a positive status and leaves the slot alone.  The code   *)
(* does not satisfy this.                                                  *)
(***************************************************************************)
C8_SentinelNeverAPid ==
    /\ last.op = "get_secure_input_pid" => last.ret # Some(-1)
    /\ last.op = "get_secure_input_application" => last.pidArg # Some(-1)

(***************************************************************************)
(* C10.  As claimed: every public query issues exactly one native call.    *)
(***************************************************************************)
C10_OneCallPerQuery ==
    last.op \in WindowQueries \cup {"get_secure_input_application"}
        => Len(last.calls) = 1

(***************************************************************************)
(* C10, amended.  A window query issues exactly one native call.           *)
(* get_secure_input_application issues get_secure_input_process alone when *)
(* that answers a status <= 0, and otherwise get_secure_input_process and  *)
(* then get_path_from_pid, handing it the pid the first call left.         *)
(***************************************************************************)
C10_CallsPerQuery ==
    /\ last.op \in WindowQueries => Len(last.calls) = 1
    /\ last.op = "get_secure_input_application" =>
          IF secureInput.status <= 0
          THEN last.calls = <<"get_secure_input_process">> /\ last.pidArg = None
          ELSE /\ last.calls = <<"get_secure_input_process", "get_path_from_pid">>
               /\ last.pidArg =
                      Some(IF secureInput.slot # None THEN secureInput.slot[1] ELSE -1)

C10_Witness ==
    /\ last.op = "get_secure_input_application"
    /\ Len(last.calls) = 2
    /\ last.pidArg = Some(7)

====
